---- MODULE Spec2Model ----
(***************************************************************************)
(* Model of the cda report post-processor (src/src/runner.rs,              *)
(* src/src/analyzer.rs, src/src/counter.rs): the two line recognizers, the *)
(* line-by-line group parser of Runner::analyze, and the keyed fold and    *)
(* rendering loop of Runner::pretty_printed.                               *)
(*                                                                         *)
(* Text is modelled as sequences of one-character strings, so substring    *)
(* and regular-expression tests are computed on the characters.  A report  *)
(* line is a record [kind, num, path]:                                     *)
(*   "blank"     the empty line                                            *)
(*   "found"     "Found a " \o num \o " line duplication ..."              *)
(*   "starting"  "Starting at line " \o num \o " of " \o path              *)
(*   "text"      any other non-empty line                                  *)
(***************************************************************************)
EXTENDS Integers, Sequences, FiniteSets, TLC

VARIABLES
    pc,             \* position of the run: exec, parse, aggregate, render, done (Ok
                    \* after parsing), ok (Ok without parsing), error (Err),
                    \* panic (Runner::analyze panicked), write_failed (exec_cpd panicked)
    status,         \* exec_cpd: output.status.code() of the detector process
    report_file,    \* exec_cpd: report.txt holds the detector's stdout
    args,           \* Args: source, destination (command line)
    fs,             \* the file system: line count of each file, number of files per tree
    line,           \* `string`, the report line being processed by Runner::analyze
    is_new_group,   \* Runner::analyze local
    dup,            \* Runner::analyze local, the group being collected
    result,         \* Runner::analyze local, the emitted groups
    dropped,        \* history: the destinations clear_destination released in the
                    \* last iteration of the loop
    in_group_before,\* history: is_new_group before the last iteration of the loop
    idx,            \* position of the first loop of pretty_printed in dups
    map,            \* pretty_printed: HashMap keyed by source file
    rows,           \* pretty_printed: rows pushed to `result` String, in iteration order
    total_rate,     \* pretty_printed accumulator
    self_rate,      \* pretty_printed accumulator
    totals          \* the two printed summary lines

vars == <<pc, status, report_file, args, fs, line, is_new_group, dup, result, dropped,
          in_group_before, idx, map, rows, total_rate, self_rate, totals>>

(***************************************************************************)
(* Bounds of the model.                                                    *)
(***************************************************************************)
\* most file occurrences (sources and destinations) the parser holds in one run
MaxOccurrences == 4

(***************************************************************************)
(* Characters, numbers, strings.                                           *)
(***************************************************************************)
Digits == {"0", "1", "2", "3", "4", "5", "6", "7", "8", "9"}

DigitVal(c) ==
    CASE c = "0" -> 0 [] c = "1" -> 1 [] c = "2" -> 2 [] c = "3" -> 3
      [] c = "4" -> 4 [] c = "5" -> 5 [] c = "6" -> 6 [] c = "7" -> 7
      [] c = "8" -> 8 [] c = "9" -> 9

\* usize::MAX = 18446744073709551615 and u32::MAX = 4294967295, as digit strings
UsizeMaxDigits ==
    <<"1","8","4","4","6","7","4","4","0","7","3","7","0","9","5","5","1","6","1","5">>
U32MaxDigits == <<"4","2","9","4","9","6","7","2","9","5">>

RECURSIVE DigitsGreater(_, _)
\* a > b for two digit strings of the same length
DigitsGreater(a, b) ==
    IF a = <<>> THEN FALSE
    ELSE IF DigitVal(Head(a)) # DigitVal(Head(b))
         THEN DigitVal(Head(a)) > DigitVal(Head(b))
         ELSE DigitsGreater(Tail(a), Tail(b))

RECURSIVE StripZeros(_)
StripZeros(s) == IF s # <<>> /\ Head(s) = "0" THEN StripZeros(Tail(s)) ELSE s

RECURSIVE DigitsValue(_, _)
DigitsValue(s, acc) ==
    IF s = <<>> THEN acc ELSE DigitsValue(Tail(s), 10 * acc + DigitVal(Head(s)))

\* str::parse::<uN>() followed by unwrap_or_default(): the value, or 0 when the
\* text is not a number or does not fit the type
ParseOrDefault(s, maxDigits) ==
    LET t == StripZeros(s) IN
    IF s = <<>> \/ \E i \in 1..Len(s) : s[i] \notin Digits THEN 0
    ELSE IF Len(t) > Len(maxDigits) THEN 0
    ELSE IF Len(t) = Len(maxDigits) /\ DigitsGreater(t, maxDigits) THEN 0
    ELSE DigitsValue(t, 0)

\* the regular expression [1-9]\d* matched against a whole token
IsPositiveNumber(s) ==
    /\ s # <<>>
    /\ Head(s) \in Digits \ {"0"}
    /\ \A i \in 1..Len(s) : s[i] \in Digits

\* str::contains
Contains(hay, needle) ==
    \E i \in 0..(Len(hay) - Len(needle)) :
        \A j \in 1..Len(needle) : hay[i + j] = needle[j]

\* Path::file_name of a path without a trailing separator: the text after the
\* last separator
RECURSIVE FileName(_)
FileName(p) ==
    IF p = <<>> THEN <<>>
    ELSE IF \E i \in 1..Len(Tail(p)) : Tail(p)[i] = "/" THEN FileName(Tail(p))
    ELSE IF Head(p) = "/" THEN Tail(p)
    ELSE p

(***************************************************************************)
(* counter.rs                                                              *)
(***************************************************************************)
\* SourceCode::new
NewSourceCode == [file |-> <<>>, lines |-> 0]

\* SourceCode::is_empty
IsEmpty(sc) == sc.file = <<>>

\* Lang::extension of the language that Lang::lang names
LangExtension(language) ==
    CASE language = "swift" -> "swift"
      [] language = "java" -> "java"
      [] language = "html" -> "html"
      [] language = "kotlin" -> "kt"
      [] language = "rust" -> "rs"

(***************************************************************************)
(* analyzer.rs                                                             *)
(***************************************************************************)
None == [some |-> FALSE, value |-> 0]
Some(v) == [some |-> TRUE, value |-> v]

\* LinesAnalyzer::analyze: ^Found a ([1-9]\d*) line, then
\* cap[1].parse::<usize>().unwrap_or_default()
LinesAnalyzerAnalyze(l) ==
    IF l.kind = "found" /\ IsPositiveNumber(l.num)
    THEN Some(ParseOrDefault(l.num, UsizeMaxDigits))
    ELSE None

\* DuplicationAnalyzer::analyze: Starting at line ([1-9]\d*) of (/.+)?
\* The second group takes part in the match only when the text after " of "
\* is a "/" followed by at least one character; cap[2] on a group that took no
\* part panics.
DuplicationAnalyzerAnalyze(l) ==
    IF l.kind = "starting" /\ IsPositiveNumber(l.num)
    THEN IF Len(l.path) >= 2 /\ l.path[1] = "/"
         THEN [some |-> TRUE, panics |-> FALSE,
               start |-> ParseOrDefault(l.num, U32MaxDigits), file |-> l.path]
         ELSE [some |-> FALSE, panics |-> TRUE, start |-> 0, file |-> <<>>]
    ELSE [some |-> FALSE, panics |-> FALSE, start |-> 0, file |-> <<>>]

(***************************************************************************)
(* runner.rs: Args, count_lines, Duplication                               *)
(***************************************************************************)
\* Regex::is_match for a pattern of literal characters and ".", which stands
\* for any character
RegexIsMatch(pattern, hay) ==
    \E i \in 0..(Len(hay) - Len(pattern)) :
        \A j \in 1..Len(pattern) : pattern[j] = "." \/ hay[i + j] = pattern[j]

\* Args::is_destination_soruce_file: the regular expression "/<file name>/"
\* is found in the path
IsDestinationSourceFile(a, file) ==
    RegexIsMatch(<<"/">> \o FileName(a.destination) \o <<"/">>, file)

\* count_lines(path, true): the non-blank lines of the file, 0 when it cannot
\* be read
CountLines(f, path) ==
    IF path \in DOMAIN f.lines THEN f.lines[path] ELSE 0

\* Duplication::new
NewDuplication(n) == [lines |-> n, source |-> NewSourceCode, destination |-> <<>>]

\* Duplication::add_destination
AddDestination(d, des) == [d EXCEPT !.destination = Append(@, des)]

\* Duplication::clear_destination
ClearDestination(d) == [d EXCEPT !.destination = <<>>]

\* a variant of add_lines that assigns instead of adding
AddLinesAssign(d, n) == [d EXCEPT !.lines = n]

\* Duplication::add_lines
AddLines(d, n) == [d EXCEPT !.lines = @ + n]

(***************************************************************************)
(* f32 values as reduced fractions [n, d]; d = 0 stands for the two        *)
(* non-finite values a division of unsigned counts can produce.  Rounding  *)
(* of the binary format is not modelled.                                   *)
(***************************************************************************)
RECURSIVE GCD(_, _)
GCD(a, b) == IF b = 0 THEN a ELSE GCD(b, a % b)

Frac(a, b) == LET g == GCD(a, b) IN
              IF g = 0 THEN [n |-> 0, d |-> 1] ELSE [n |-> a \div g, d |-> b \div g]

NaN == [n |-> 0, d |-> 0]
Inf == [n |-> 1, d |-> 0]
Zero == [n |-> 0, d |-> 1]
One == [n |-> 1, d |-> 1]

\* a as f32 / b as f32 for unsigned a, b
F32Div(a, b) ==
    IF b = 0 THEN (IF a = 0 THEN NaN ELSE Inf) ELSE Frac(a, b)

\* rate > 1.0 (false for NaN)
GreaterThanOne(r) == IF r.d = 0 THEN r.n > 0 ELSE r.n > r.d

\* r + s
F32Add(r, s) ==
    IF r = NaN \/ s = NaN THEN NaN
    ELSE IF r = Inf \/ s = Inf THEN Inf
    ELSE Frac(r.n * s.d + s.n * r.d, r.d * s.d)

\* r / k as f32 for a non-negative r and an unsigned count k
F32DivCount(r, k) ==
    IF r = NaN THEN NaN
    ELSE IF r = Inf THEN Inf
    ELSE IF k = 0 THEN (IF r.n = 0 THEN NaN ELSE Inf)
    ELSE Frac(r.n, r.d * k)

\* r * 100.0
Times100(r) == IF r.d = 0 THEN r ELSE Frac(100 * r.n, r.d)

\* format!("{:.2}", r): hundredths, or the text of a non-finite value
Format2(r) ==
    IF r = NaN THEN [text |-> "NaN", hundredths |-> 0]
    ELSE IF r = Inf THEN [text |-> "inf", hundredths |-> 0]
    ELSE [text |-> "number", hundredths |-> (200 * r.n + r.d) \div (2 * r.d)]

\* Duplication::dup_rate
DupRate(d) ==
    IF d.destination = <<>> THEN Zero
    ELSE LET rate == F32Div(d.lines, d.destination[1].lines) IN
         IF GreaterThanOne(rate) THEN One ELSE rate

\* a variant of rate_of_source_code without the clamp
RateOfSourceCodeUnclamped(d) == F32Div(d.lines, d.source.lines)

\* Duplication::rate_of_source_code
RateOfSourceCode(d) ==
    LET rate == F32Div(d.lines, d.source.lines) IN
    IF GreaterThanOne(rate) THEN One ELSE rate

(***************************************************************************)
(* The inputs: command lines, file systems and report lines.               *)
(***************************************************************************)
SrcDir == <<"/", "s">>
DstDir == <<"/", "d">>
DotDir == <<"/", "d", ".", "e">>
FileA == <<"/", "s", "/", "a">>
FileB == <<"/", "d", "/", "b">>
FileG == <<"/", "s", "/", "d", "/", "g">>
FileF == <<"/", "d", "x", "e", "/", "f">>

Configs == {[source |-> SrcDir, destination |-> DstDir, language |-> "java"],
            [source |-> SrcDir, destination |-> DotDir, language |-> "swift"]}

\* lines: the non-blank lines of each readable file; tree: the number of files
\* of each extension below the source and the destination directory
FileSystems ==
    { [lines |-> (FileA :> 40) @@ (FileB :> 60) @@ (FileG :> 5) @@ (FileF :> 9),
       tree  |-> [source |-> [swift |-> 2, java |-> 1],
                  destination |-> [swift |-> 2, java |-> 4]]],
      [lines |-> (FileG :> 3),
       tree  |-> [source |-> [swift |-> 1, java |-> 1],
                  destination |-> [swift |-> 0, java |-> 0]]] }

\* the runs: a command line and the file system it is run on (the destination
\* /d.e is given where the files below /dxe exist)
Runs ==
    { r \in [args : Configs, fs : FileSystems] :
        r.args.destination = DotDir => FileF \in DOMAIN r.fs.lines }

\* output.status.code(): the exit code, or none when a signal ended the process
NotRun == [exited |-> FALSE, some |-> FALSE, value |-> 0]
Exited(c) == [exited |-> TRUE, some |-> TRUE, value |-> c]
Signalled == [exited |-> TRUE, some |-> FALSE, value |-> 0]
Outcomes == {Exited(0), Exited(1), Exited(4), Signalled}

\* a count that does not fit usize
TooBig == [i \in 1..21 |-> "9"]

HeaderTokens == {<<"1", "2">>, TooBig, <<"0">>, <<"x">>}
StartTokens == {<<"3">>}
ReportPaths == {FileA, FileB, FileG, FileF, <<>>}

NoLine == [kind |-> "none", num |-> <<>>, path |-> <<>>]
BlankLine == [kind |-> "blank", num |-> <<>>, path |-> <<>>]
TextLine == [kind |-> "text", num |-> <<>>, path |-> <<>>]
\* a line for which BufReader::lines yields Err (bytes that are not UTF-8)
UndecodableLine == [kind |-> "undecodable", num |-> <<>>, path |-> <<>>]
FoundLine(t) == [kind |-> "found", num |-> t, path |-> <<>>]
StartingLine(t, p) == [kind |-> "starting", num |-> t, path |-> p]

Lines == {BlankLine, TextLine, UndecodableLine}
         \cup {FoundLine(t) : t \in HeaderTokens}
         \cup {StartingLine(t, p) : t \in StartTokens, p \in ReportPaths}

(***************************************************************************)
(* runner.rs: Runner::analyze, one iteration of the loop over the lines.   *)
(* The parser state is [is_new_group, dup, result, panicked, dropped].     *)
(***************************************************************************)
InitialParser ==
    [is_new_group |-> FALSE, dup |-> NewDuplication(0), result |-> <<>>,
     panicked |-> FALSE, dropped |-> <<>>]

\* a variant of lines 193-201 that pushes the group whether or not it has a source
EndGroupAlways(st) ==
    [st EXCEPT !.result = Append(@, st.dup),
               !.dup = NewDuplication(0),
               !.is_new_group = FALSE]

\* a variant of lines 193-201 that does not start over with a new group
EndGroupKeepsGroup(st) ==
    [st EXCEPT !.result = IF ~IsEmpty(st.dup.source) THEN Append(@, st.dup) ELSE @,
               !.is_new_group = FALSE]

\* lines 193-201: the blank line that ends a group
EndGroup(st) ==
    [st EXCEPT !.result = IF ~IsEmpty(st.dup.source) THEN Append(@, st.dup) ELSE @,
               !.dup = NewDuplication(0),
               !.is_new_group = FALSE]

\* a variant of lines 203-207 that starts a new group object
StartGroupFresh(st, value) ==
    [st EXCEPT !.is_new_group = TRUE, !.dup = NewDuplication(value)]

\* lines 203-207: a group header
StartGroup(st, value) ==
    [st EXCEPT !.is_new_group = TRUE, !.dup.lines = value]

\* a variant of lines 224-230 whose last branch keeps the destinations
ClassifyNoClear(d, sc, is_source, is_dest) ==
    IF is_source /\ IsEmpty(d.source) THEN [d EXCEPT !.source = sc]
    ELSE IF is_dest THEN AddDestination(d, sc)
    ELSE d

\* lines 224-230: the occurrence sc becomes the source, a destination, or
\* clears the destinations
Classify(d, sc, is_source, is_dest) ==
    IF is_source /\ IsEmpty(d.source) THEN [d EXCEPT !.source = sc]
    ELSE IF is_dest THEN AddDestination(d, sc)
    ELSE ClearDestination(d)

\* lines 209-230: a file-location line
Occurrence(st, file, a, f) ==
    LET is_source == Contains(file, a.source)
        is_dest == IsDestinationSourceFile(a, file)
        sc == [file |-> file, lines |-> CountLines(f, file)]
        d == Classify(st.dup, sc, is_source, is_dest)
    IN  [st EXCEPT !.dup = d,
                   !.dropped = IF d.destination = <<>> THEN st.dup.destination ELSE <<>>]

\* a variant of lines 186-231 that reads an undecodable line as an empty one
AnalyzeLineErrAsEmpty(st, l, a, f) ==
    IF l.kind \in {"undecodable", "blank"} /\ st.is_new_group THEN EndGroup(st)
    ELSE LET header == LinesAnalyzerAnalyze(l) IN
         IF header.some THEN StartGroup(st, header.value)
         ELSE LET found == DuplicationAnalyzerAnalyze(l) IN
              IF found.panics THEN [st EXCEPT !.panicked = TRUE]
              ELSE IF ~found.some THEN st
              ELSE Occurrence(st, found.file, a, f)

\* lines 186-231: the body of the loop for the line l
AnalyzeLine(st, l, a, f) ==
    IF l.kind = "undecodable" THEN st
    ELSE IF l.kind = "blank" /\ st.is_new_group THEN EndGroup(st)
    ELSE LET header == LinesAnalyzerAnalyze(l) IN
         IF header.some THEN StartGroup(st, header.value)
         ELSE LET found == DuplicationAnalyzerAnalyze(l) IN
              IF found.panics THEN [st EXCEPT !.panicked = TRUE]
              ELSE IF ~found.some THEN st
              ELSE Occurrence(st, found.file, a, f)

\* the file occurrences held in the emitted groups r and the open group d
RECURSIVE Occurrences(_, _)
Occurrences(r, d) ==
    IF r = <<>> THEN Len(d.destination) + (IF IsEmpty(d.source) THEN 0 ELSE 1)
    ELSE 1 + Len(Head(r).destination) + Occurrences(Tail(r), d)

(***************************************************************************)
(* runner.rs: Runner::pretty_printed                                       *)
(***************************************************************************)
EmptyMap == [k \in {} |-> NewDuplication(0)]

\* a variant of lines 244-250 without the test of line 244
AddGroupNoSkip(m, d) ==
    IF d.source.file \in DOMAIN m
    THEN [m EXCEPT ![d.source.file] = AddLines(@, d.lines)]
    ELSE m @@ (d.source.file :> d)

\* a variant of lines 244-250 whose update also takes the later group's
\* destinations
AddGroupOverwrite(m, d) ==
    IF d.destination = <<>> THEN m
    ELSE IF d.source.file \in DOMAIN m
         THEN [m EXCEPT ![d.source.file] =
                  [AddLines(@, d.lines) EXCEPT !.destination = d.destination]]
         ELSE m @@ (d.source.file :> d)

\* lines 244-250: one iteration of the first loop
AddGroup(m, d) ==
    IF d.destination = <<>> THEN m
    ELSE IF d.source.file \in DOMAIN m
         THEN [m EXCEPT ![d.source.file] = AddLines(@, d.lines)]
         ELSE m @@ (d.source.file :> d)

\* lines 269-283: the row of one record
Row(val, f) ==
    [source |-> val.source.file,
     destination |-> val.destination[1].file,
     code_lines |-> CountLines(f, val.source.file),
     self_percent |-> Format2(Times100(RateOfSourceCode(val))),
     lines |-> val.lines,
     dest_percent |-> Format2(Times100(DupRate(val)))]

\* Lang::extension of the languages scanned (line 291)
Langs == {"swift"}

\* Scanner::scan(dir, langs).num_of_files()
RECURSIVE NumOfFiles(_, _, _)
NumOfFiles(f, dir, langs) ==
    IF langs = {} THEN 0
    ELSE LET ext == CHOOSE e \in langs : TRUE IN
         (IF ext \in DOMAIN f.tree[dir] THEN f.tree[dir][ext] ELSE 0)
         + NumOfFiles(f, dir, langs \ {ext})

\* lines 293-300: the two summary lines
Totals(total, self, f) ==
    [printed |-> TRUE,
     total_rate |-> Format2(Times100(F32DivCount(total, NumOfFiles(f, "destination", Langs)))),
     self_rate |-> Format2(Times100(F32DivCount(self, NumOfFiles(f, "source", Langs))))]

NoTotals == [printed |-> FALSE, total_rate |-> Format2(Zero), self_rate |-> Format2(Zero)]

Rendered == {rows[i].source : i \in 1..Len(rows)}

(***************************************************************************)
(* The run.                                                                *)
(***************************************************************************)
\* exec_cpd, lines 151-165: where the run goes after the detector outcome o,
\* when report.txt can or cannot be created
AfterExec(o, creatable) ==
    LET code == IF o.some THEN o.value ELSE 0 IN
    IF code = 0 THEN "ok"
    ELSE IF code = 4 THEN (IF creatable THEN "parse" ELSE "write_failed")
    ELSE "error"

Init ==
    /\ pc = "exec"
    /\ status = NotRun
    /\ report_file = FALSE
    /\ in_group_before = FALSE
    /\ \E r \in Runs : args = r.args /\ fs = r.fs
    /\ line = NoLine
    /\ is_new_group = FALSE
    /\ dup = NewDuplication(0)
    /\ result = <<>>
    /\ dropped = <<>>
    /\ idx = 1
    /\ map = EmptyMap
    /\ rows = <<>>
    /\ total_rate = Zero
    /\ self_rate = Zero
    /\ totals = NoTotals

\* Runner::exec_cpd, lines 140-165: the detector process ends
ExecCpd ==
    /\ pc = "exec"
    /\ \E o \in Outcomes, creatable \in BOOLEAN :
        /\ status' = o
        /\ pc' = AfterExec(o, creatable)
        /\ report_file' = (pc' = "parse")
    /\ UNCHANGED <<args, fs, line, is_new_group, dup, result, dropped, in_group_before,
                   idx, map, rows, total_rate, self_rate, totals>>

\* Runner::analyze, lines 186-231: the next line of the report is read
ReadLine ==
    /\ pc = "parse"
    /\ \E l \in Lines :
        LET st == AnalyzeLine([is_new_group |-> is_new_group, dup |-> dup,
                               result |-> result, panicked |-> FALSE,
                               dropped |-> <<>>], l, args, fs)
        IN  /\ Occurrences(st.result, st.dup) <= MaxOccurrences
            /\ line' = l
            /\ is_new_group' = st.is_new_group
            /\ dup' = st.dup
            /\ result' = st.result
            /\ dropped' = st.dropped
            /\ in_group_before' = is_new_group
            /\ pc' = IF st.panicked THEN "panic" ELSE "parse"
    /\ UNCHANGED <<status, report_file, args, fs, idx, map, rows, total_rate, self_rate,
                   totals>>

\* a variant of line 233 that emits the group still open at the end of the report
EndOfReportFlush ==
    /\ pc = "parse"
    /\ pc' = "aggregate"
    /\ line' = NoLine
    /\ dropped' = <<>>
    /\ in_group_before' = FALSE
    /\ result' = IF is_new_group /\ ~IsEmpty(dup.source) THEN Append(result, dup)
                 ELSE result
    /\ UNCHANGED <<status, report_file, args, fs, is_new_group, dup,
                   idx, map, rows, total_rate, self_rate, totals>>

\* Runner::analyze, line 233: the report has no more lines; `string` and what is
\* remembered of the last iteration live in the loop body only
EndOfReport ==
    /\ pc = "parse"
    /\ pc' = "aggregate"
    /\ line' = NoLine
    /\ dropped' = <<>>
    /\ in_group_before' = FALSE
    /\ UNCHANGED <<status, report_file, args, fs, is_new_group, dup, result,
                   idx, map, rows, total_rate, self_rate, totals>>

\* pretty_printed, lines 243-259: the next group is folded into the map
AggregateGroup ==
    /\ pc = "aggregate"
    /\ idx <= Len(result)
    /\ map' = AddGroup(map, result[idx])
    /\ idx' = idx + 1
    /\ UNCHANGED <<pc, status, report_file, args, fs, line, is_new_group, dup, result,
                   dropped, in_group_before, rows, total_rate, self_rate, totals>>

\* pretty_printed, line 261: the fold is over
PrintCount ==
    /\ pc = "aggregate"
    /\ idx > Len(result)
    /\ pc' = "render"
    /\ UNCHANGED <<status, report_file, args, fs, line, is_new_group, dup, result,
                   dropped, in_group_before, idx, map, rows, total_rate, self_rate,
                   totals>>

\* pretty_printed, lines 266-287: the next value of map.values(), whose order
\* the hasher decides
RenderRow ==
    /\ pc = "render"
    /\ \E k \in DOMAIN map \ Rendered :
        /\ rows' = Append(rows, Row(map[k], fs))
        /\ total_rate' = F32Add(total_rate, DupRate(map[k]))
        /\ self_rate' = F32Add(self_rate, RateOfSourceCode(map[k]))
    /\ UNCHANGED <<pc, status, report_file, args, fs, line, is_new_group, dup, result,
                   dropped, in_group_before, idx, map, totals>>

\* pretty_printed, lines 288-300
PrintTotals ==
    /\ pc = "render"
    /\ DOMAIN map \ Rendered = {}
    /\ totals' = Totals(total_rate, self_rate, fs)
    /\ pc' = "done"
    /\ UNCHANGED <<status, report_file, args, fs, line, is_new_group, dup, result,
                   dropped, in_group_before, idx, map, rows, total_rate, self_rate>>

Next ==
    \/ ExecCpd
    \/ ReadLine
    \/ EndOfReport
    \/ AggregateGroup
    \/ PrintCount
    \/ RenderRow
    \/ PrintTotals

Spec == Init /\ [][Next]_vars

(***************************************************************************)
(* Properties.                                                             *)
(***************************************************************************)
\* the groups the first loop of pretty_printed has already passed
Folded == 1..(idx - 1)

\* a group the fold uses: it has a source and at least one destination
Valid(g) == ~IsEmpty(g.source) /\ g.destination # <<>>

\* the already folded valid groups of the source file k
Contributors(k) == {i \in Folded : Valid(result[i]) /\ result[i].source.file = k}

RECURSIVE SumLines(_)
\* the sum of the declared lines of the groups at the positions S of result
SumLines(S) ==
    IF S = {} THEN 0
    ELSE LET i == CHOOSE j \in S : TRUE IN result[i].lines + SumLines(S \ {i})

Min(S) == CHOOSE i \in S : \A j \in S : i <= j

\* a rate that is a number between 0 and 1
InUnitInterval(r) == r.d > 0 /\ 0 <= r.n /\ r.n <= r.d

\* min(1, a / b) for counts a, b that are not both 0 (a / 0 is infinite for a > 0)
MinOneQuotient(a, b) == IF a >= b THEN One ELSE Frac(a, b)

\* the iteration of the parser loop that just ended read a file-location line
LocationRead ==
    /\ pc = "parse" /\ pc' = "parse"
    /\ line'.kind = "starting"
    /\ IsPositiveNumber(line'.num)

\* the iteration of the parser loop that just ended read a blank line in a group
GroupEnded ==
    /\ pc = "parse" /\ pc' = "parse"
    /\ line'.kind = "blank"
    /\ is_new_group

\* the first loop of pretty_printed has just passed result[idx]
GroupFolded == pc = "aggregate" /\ idx' = idx + 1

\* C1: every group the parser emits has a non-empty source, and every
\* aggregated record is keyed by the non-empty source of an emitted group
\* that was folded: a group without a source contributes to no record.
C1_EmittedGroupsHaveSource ==
    /\ \A i \in 1..Len(result) : ~IsEmpty(result[i].source)
    /\ \A k \in DOMAIN map :
        /\ k # <<>>
        /\ map[k].source.file = k
        /\ \E i \in Folded : result[i].source.file = k

\* a group was emitted and has produced a record
C1_Witness ==
    /\ pc = "done"
    /\ \E i \in 1..Len(result) : result[i].source.file \in DOMAIN map

C3_InvalidGroupDiscarded ==
    [][/\ (GroupEnded /\ IsEmpty(dup.source)) => (result' = result /\ map' = map)
       /\ (GroupFolded /\ ~Valid(result[idx])) => map' = map]_vars

\* the fold has passed a group without destinations after it had made a record
\* for the same source
C3_Witness ==
    \E i, j \in Folded :
        /\ i < j
        /\ Valid(result[i])
        /\ result[j].destination = <<>>
        /\ result[j].source.file = result[i].source.file
        /\ result[i].source.file \in DOMAIN map

\* C4: the primaryDestination and the sourceFile of a record are those of the
\* first valid group folded for its source path, whatever later groups name.
C4_PrimaryDestinationIsFirst ==
    \A k \in DOMAIN map :
        /\ Contributors(k) # {}
        /\ LET first == result[Min(Contributors(k))] IN
            /\ map[k].destination[1] = first.destination[1]
            /\ map[k].source = first.source

\* two valid groups of one source that name different first destinations were
\* folded
C4_Witness ==
    \E i, j \in Folded :
        /\ i < j
        /\ Valid(result[i]) /\ Valid(result[j])
        /\ result[i].source.file = result[j].source.file
        /\ result[i].destination[1] # result[j].destination[1]

\* C5 as stated: both rates of every record are numbers in [0.0, 1.0].
C5_RatesInUnitInterval ==
    \A k \in DOMAIN map :
        /\ InUnitInterval(RateOfSourceCode(map[k]))
        /\ InUnitInterval(DupRate(map[k]))

\* the declared count of a header is zero or not a number
ZeroOrNonNumeric(t) ==
    \/ t = <<>>
    \/ \E i \in 1..Len(t) : t[i] \notin Digits
    \/ \A i \in 1..Len(t) : t[i] = "0"

\* C7 as stated: the header recognizer returns none for a count that is zero
\* or not a number, and no emitted group has declaredLines 0.
C7_NoZeroDeclaredLines ==
    /\ \A l \in Lines :
        (l.kind = "found" /\ ZeroOrNonNumeric(l.num)) => ~LinesAnalyzerAnalyze(l).some
    /\ \A i \in 1..Len(result) : result[i].lines # 0

\* C8: a location line that matches neither identifier empties the
\* destinations, a destination line appends exactly its own occurrence (so
\* after a clearing line only later destinations are held), the terminating
\* blank line emits the group with the destinations held then, and a group
\* emitted without destinations produces no record.
C8_NeitherLineClearsDestinations ==
    [][/\ (/\ LocationRead
           /\ ~Contains(line'.path, args.source)
           /\ ~IsDestinationSourceFile(args, line'.path))
          => (dup'.destination = <<>> /\ dropped' = dup.destination)
       /\ (/\ LocationRead
           /\ ~(Contains(line'.path, args.source) /\ IsEmpty(dup.source))
           /\ IsDestinationSourceFile(args, line'.path))
          => dup'.destination =
                Append(dup.destination,
                       [file |-> line'.path, lines |-> CountLines(fs, line'.path)])
       /\ (GroupEnded /\ ~IsEmpty(dup.source)) => result' = Append(result, dup)
       /\ (GroupFolded /\ result[idx].destination = <<>>) => map' = map]_vars

\* in an open group that has a source, a line matching neither identifier has
\* just released the destinations collected so far
C8_Witness ==
    /\ pc = "parse"
    /\ is_new_group
    /\ ~IsEmpty(dup.source)
    /\ line.kind = "starting"
    /\ ~Contains(line.path, args.source)
    /\ ~IsDestinationSourceFile(args, line.path)
    /\ dropped # <<>>
    /\ dup.destination = <<>>

C10_RecognizerNeverFails ==
    LET found == DuplicationAnalyzerAnalyze(line) IN
    /\ pc # "panic"
    /\ ~found.panics
    /\ (line.kind = "starting" /\ IsPositiveNumber(line.num) /\ line.path = <<>>)
        => (found.some /\ found.file = <<>>)
    /\ (line.kind # "starting" \/ ~IsPositiveNumber(line.num)) => ~found.some

\* C11 as stated: whatever the outcome of the detector process, exit status 0
\* ends the run successfully with no report written or parsed, exit status 4
\* has report.txt written before parsing starts, and every other outcome (a
\* process that ends without an exit code included) ends the run with the
\* fatal error and no parsing.
C11_OutcomeDecidesTheRun ==
    status.exited =>
        IF status.some /\ status.value = 0 THEN pc = "ok" /\ ~report_file
        ELSE IF status.some /\ status.value = 4
             THEN (pc = "write_failed" /\ ~report_file)
                  \/ (pc \in {"parse", "aggregate", "render", "done", "panic"}
                      /\ report_file)
        ELSE pc = "error" /\ ~report_file

\* C12: a blank line read in a group ends it: the group is appended at the end
\* of the output if its source is set and dropped otherwise, the parser is then
\* outside a group with an empty group (0 lines, no source, no destinations),
\* and nothing else changes the output, so that it is in report order.
C12_BlankLineEndsGroup ==
    [][ /\ GroupEnded =>
            /\ result' = IF IsEmpty(dup.source) THEN result ELSE Append(result, dup)
            /\ ~is_new_group'
            /\ dup' = NewDuplication(0)
        /\ ~GroupEnded => result' = result ]_vars

\* a blank line has just ended the second of two different emitted groups
C12_Witness ==
    /\ pc = "parse"
    /\ line.kind = "blank"
    /\ in_group_before
    /\ ~is_new_group
    /\ dup = NewDuplication(0)
    /\ Len(result) = 2
    /\ result[1].source.file = FileA
    /\ result[2].source.file = FileG

\* the iteration of the parser loop that just ended read a group header
HeaderRead ==
    /\ pc = "parse" /\ pc' = "parse"
    /\ LinesAnalyzerAnalyze(line').some

\* C13 as stated: a file-location line read outside a group changes nothing,
\* and right after a header is read outside a group the new group is fresh
\* (empty source, no destinations), so that an emitted group holds only the
\* occurrences between its own header and its blank line.
C13_LocationsClassifiedOnlyInGroup ==
    [][ /\ (LocationRead /\ ~is_new_group) =>
            (dup' = dup /\ result' = result /\ ~is_new_group')
        /\ (HeaderRead /\ ~is_new_group) =>
            (IsEmpty(dup'.source) /\ dup'.destination = <<>>) ]_vars

\* the path has a directory segment (a part between two "/") equal to seg
HasDirectorySegment(file, seg) ==
    \E i \in 1..Len(file), j \in 1..Len(file) :
        /\ i < j
        /\ file[i] = "/" /\ file[j] = "/"
        /\ SubSeq(file, i + 1, j - 1) = seg

\* C14 as stated: in a group each file-location line is handled by exactly one
\* rule, the first that applies: (1) the path contains the source identifier
\* and the group has no source: it becomes the source; (2) the path has a
\* directory segment equal to the last segment of the destination directory:
\* it is appended at the end of the destinations; (3) the destinations become
\* empty. Whatever a rule does not name is unchanged.
C14_OneRulePerLocationLine ==
    [][ (LocationRead /\ is_new_group) =>
            LET file == line'.path
                sc == [file |-> file, lines |-> CountLines(fs, file)]
            IN  IF Contains(file, args.source) /\ IsEmpty(dup.source)
                THEN dup' = [dup EXCEPT !.source = sc]
                ELSE IF HasDirectorySegment(file, FileName(args.destination))
                THEN dup' = [dup EXCEPT !.destination = Append(@, sc)]
                ELSE dup' = [dup EXCEPT !.destination = <<>>] ]_vars

\* C15 as stated: a group has at most one source. A file-location line read
\* when the source is set leaves the source as it is and either appends its
\* occurrence to the destinations or empties them; and the source of a group is
\* the first source-matching occurrence after its header: the group has no
\* source when its header has just been read, and the first source-matching
\* line of the group sets it.
C15_SourceSetOnce ==
    [][ /\ (LocationRead /\ ~IsEmpty(dup.source)) =>
            /\ dup'.source = dup.source
            /\ \/ dup'.destination = <<>>
               \/ dup'.destination =
                      Append(dup.destination,
                             [file |-> line'.path,
                              lines |-> CountLines(fs, line'.path)])
        /\ (HeaderRead /\ ~is_new_group) => IsEmpty(dup'.source)
        /\ (LocationRead /\ is_new_group /\ IsEmpty(dup.source)
                /\ Contains(line'.path, args.source)) =>
            dup'.source.file = line'.path ]_vars

\* C16: a group header read in a group does not reset the state: the parser
\* stays in the group, the source and the destinations collected so far are
\* unchanged, no group is emitted and the output is unchanged; only the
\* declared line count becomes that of the header.
C16_HeaderInGroupKeepsGroup ==
    [][ (HeaderRead /\ is_new_group) =>
            /\ is_new_group'
            /\ dup'.source = dup.source
            /\ dup'.destination = dup.destination
            /\ dup'.lines = LinesAnalyzerAnalyze(line').value
            /\ result' = result ]_vars

\* a header has just been read in a group that has a source and a destination
C16_Witness ==
    /\ pc = "parse"
    /\ LinesAnalyzerAnalyze(line).some
    /\ in_group_before
    /\ is_new_group
    /\ dup.source.file = FileA
    /\ dup.destination # <<>>
    /\ result # <<>>

\* C17 as stated: the two summary rates divide the sums of the records' rates
\* by the numbers of files that have the extension of the configured language
\* in the destination tree and in the source tree.
C17_CountsOfConfiguredLanguage ==
    totals.printed =>
        LET ext == LangExtension(args.language) IN
        /\ totals.total_rate =
              Format2(Times100(F32DivCount(total_rate, fs.tree["destination"][ext])))
        /\ totals.self_rate =
              Format2(Times100(F32DivCount(self_rate, fs.tree["source"][ext])))

\* C18: a report line that cannot be decoded is skipped and parsing goes on:
\* reading it leaves the parser where it was (in or outside a group, the
\* current group, the emitted groups), so the lines after it are handled as if
\* it were absent.
C18_UndecodableLineSkipped ==
    [][ (pc = "parse" /\ line'.kind = "undecodable") =>
            /\ pc' = "parse"
            /\ is_new_group' = is_new_group
            /\ dup' = dup
            /\ result' = result ]_vars

\* an undecodable line has just been read in a group that has a source and a
\* destination
C18_Witness ==
    /\ pc = "parse"
    /\ line.kind = "undecodable"
    /\ in_group_before
    /\ is_new_group
    /\ ~IsEmpty(dup.source)
    /\ dup.destination # <<>>

\* C19: a group is emitted only at a blank line read in a group: the end of
\* the report, like every step outside the loop, leaves the output as it is, a
\* step of the loop changes the output only by appending the current group at
\* such a blank line, and the records change only by folding an emitted group.
\* A group still open when the report ends is therefore never emitted and
\* contributes to no record.
C19_OpenGroupNeverEmitted ==
    [][ /\ (pc # "parse" \/ pc' # "parse") => result' = result
        /\ (pc = "parse" /\ pc' = "parse" /\ result' # result) =>
            (line'.kind = "blank" /\ is_new_group /\ result' = Append(result, dup))
        /\ map' # map =>
            (GroupFolded /\ idx <= Len(result) /\ map' = AddGroup(map, result[idx])) ]_vars

\* the run is over; the report ended in a group with the source /s/d/g and a
\* destination, and this source has no record
C19_Witness ==
    /\ pc = "done"
    /\ is_new_group
    /\ dup.source.file = FileG
    /\ dup.destination # <<>>
    /\ DOMAIN map = {FileA}
    /\ \A i \in 1..Len(result) : result[i].source.file # FileG

\* C20 as stated: the two summary rates are valid fractions: whatever the
\* report and the trees, both divisors (the scanned file counts) are non-zero
\* and both rates are numbers between 0.00% and 100.00%.
C20_TotalsAreValidFractions ==
    totals.printed =>
        /\ NumOfFiles(fs, "destination", Langs) > 0
        /\ NumOfFiles(fs, "source", Langs) > 0
        /\ totals.total_rate.text = "number"
        /\ totals.total_rate.hundredths \in 0..10000
        /\ totals.self_rate.text = "number"
        /\ totals.self_rate.hundredths \in 0..10000

====
